---- MODULE Spec2Model ----
(***************************************************************************)
(* Client-side model of pydpf-core's convenience layer:                    *)
(*   ansys/dpf/core/model.py     Model, Metadata                           *)
(*   ansys/dpf/core/results.py   Results, Result                           *)
(*   ansys/dpf/core/operators/*  generated operator constructors           *)
(* The remote server is seen only through the requests it receives and a   *)
(* per-operator count of the evaluations it was asked to run.              *)
(***************************************************************************)
EXTENDS Integers, Sequences, FiniteSets, TLC

VARIABLES
    \* ---- Metadata (model.py) ----
    _data_sources,        \* Metadata._data_sources
    _stream_provider,     \* Metadata._stream_provider
    result_info,          \* Metadata.result_info
    _meshed_region,       \* Metadata._meshed_region (cache)
    _time_freq_support,   \* Metadata._time_freq_support (cache)
    \* ---- Result (results.py) ----
    _time_scoping,        \* Result._time_scoping
    _mesh_scoping,        \* Result._mesh_scoping
    _location,            \* Result._location
    _specific_fc_type,    \* Result._specific_fc_type
    _operator,            \* Result._operator: declared pins and connections
    \* ---- server side, as observed by a stub transport ----
    evals,                \* number of remote evaluations run, per operator
    request,              \* inputs carried by the last evaluation of _operator
    \* ---- history ----
    last,                 \* the last operation: name, arguments, return value
    prev,                 \* name of the operation before it
    called,               \* has __call__/eval been invoked on the Result yet
    constructed,          \* _operator as it was right after Result.__init__
    evalCalls,            \* number of Result.eval() invocations
    outReads,             \* number of direct output reads on the returned op
    steps,                \* number of operations performed so far
    \* ---- one generated operator (operators/*) ----
    op_name,              \* which generated class, "" before construction
    inputs,               \* its connections, pin name -> value or None
    connects,             \* the connects that went through, in order
    sent,                 \* inputs carried by its last evaluation
    sentAt,               \* Len(connects) when that evaluation was sent
    transport,            \* number of calls made on the transport
    error,                \* exception raised by the last operation
    \* ---- failures, the Results registry, the factories ----
    failure,              \* what failed inside the last operation, or None
    raised,               \* the exception that reached its caller, or None
    _op_map_rev,          \* Results._op_map_rev: registered accessor names
    _result_info,         \* Result._result_info: the quantity it is bound to
    held,                 \* the Results the caller holds besides the one in use
    field_request,        \* the last FieldRequest sent by fields_factory
    fields                \* number of Field and Scoping objects created

vars == <<_data_sources, _stream_provider, result_info, _meshed_region,
          _time_freq_support, _time_scoping, _mesh_scoping, _location,
          _specific_fc_type, _operator, evals, request, last, prev, called,
          constructed, evalCalls, outReads, steps,
          op_name, inputs, connects, sent, sentAt, transport, error,
          failure, raised, _op_map_rev, _result_info, held, field_request,
          fields>>

genVars == <<op_name, inputs, connects, sent, sentAt, transport, error>>
modelVars == <<_data_sources, _stream_provider, result_info, _meshed_region,
               _time_freq_support, _time_scoping, _mesh_scoping, _location,
               _specific_fc_type, _operator, evals, request, called,
               constructed, evalCalls, outReads>>
metaVars == <<_data_sources, _stream_provider, result_info, _meshed_region,
              _time_freq_support>>
resultVars == <<_time_scoping, _mesh_scoping, _location, _specific_fc_type>>
outcomeVars == <<failure, raised>>
registryVars == <<_op_map_rev, _result_info, held>>
factoryVars == <<field_request, fields>>

(***************************************************************************)
(* Bounds                                                                  *)
(***************************************************************************)
\* a result file is identified by the number of time/frequency sets it holds
MaxSets == 2
\* cap on the number of operations the caller performs in one run
MaxOps == 3
\* cap on how deep split operators may be chained through mesh_scoping
MaxSplitDepth == 1

Files == 0..MaxSets
NSets(file) == file

(***************************************************************************)
(* Python values.  Every value is a record tagged by `kind`.               *)
(***************************************************************************)
None == [kind |-> "None"]
NumV(n) == [kind |-> "num", n |-> n]
ListV(s) == [kind |-> "list", ids |-> s]
ScopingV(s, loc) == [kind |-> "Scoping", ids |-> s, location |-> loc]
DataSourcesV(file) == [kind |-> "DataSources", file |-> file]
OperatorV(name, conn) == [kind |-> "Operator", name |-> name, conn |-> conn]
StrV(s) == [kind |-> "str", s |-> s]
Self == [kind |-> "Result"]

\* bool(v) as Python computes it for the values above: None, numeric zero,
\* False, the empty string and the empty list are false; every other object
\* here is true (the Scopings that occur are never empty).
Truthy(v) ==
    CASE v.kind = "None" -> FALSE
      [] v.kind = "num"  -> v.n # 0
      [] v.kind = "list" -> Len(v.ids) > 0
      [] v.kind = "str"  -> v.s # ""
      [] v.kind = "float" -> v.n # 0
      [] v.kind = "bool" -> v.b
      [] OTHER           -> TRUE

Range1(n) == [i \in 1..n |-> i]

(***************************************************************************)
(* Operator inputs (spec 4.2): connecting replaces whatever the pin held.  *)
(***************************************************************************)
\* mutation of Connect: a pin already connected keeps its first value
ConnectKeepFirst(conn, pin, value) ==
    IF conn[pin] = None THEN [conn EXCEPT ![pin] = value] ELSE conn

Connect(conn, pin, value) == [conn EXCEPT ![pin] = value]

\* the history written by every operation
History(op, a1, a2, ret) ==
    /\ steps < MaxOps
    /\ steps' = steps + 1
    /\ last' = [op |-> op, a1 |-> a1, a2 |-> a2, ret |-> ret]
    /\ prev' = last.op

\* an exception: its class and, for a remote error, the diagnostic the
\* server sent, as a sequence of text fragments
ExcV(class, details) ==
    [kind |-> "exception", class |-> class, details |-> details]

\* a failure inside an operation: the method whose code met it and the
\* exception a connect or a remote call raised there
FailureV(where, exc) == [kind |-> "failure", where |-> where, exc |-> exc]

\* an operation on the Model, its Metadata or a Result inside which `f`
\* failed (None when nothing did) and out of which `r` was raised (None when
\* it returned)
Outcome(op, a1, a2, ret, f, r) ==
    /\ History(op, a1, a2, ret)
    /\ failure' = f
    /\ raised' = r
    /\ UNCHANGED <<genVars, registryVars, factoryVars>>

\* an operation on the Model, its Metadata or a Result that returns
Log(op, a1, a2, ret) == Outcome(op, a1, a2, ret, None, None)

(***************************************************************************)
(* Metadata (model.py)                                                     *)
(***************************************************************************)
\* a str naming result file `file`
PathV(file) == [kind |-> "path", file |-> file]
NoFile == -1

ResultInfoV(file) == [kind |-> "ResultInfo", file |-> file]
\* an object decoded from an evaluation is a new object each time: `serial`
\* is the number of the evaluation of its provider that produced it
TimeFreqSupportV(file, serial) ==
    [kind |-> "TimeFreqSupport", file |-> file, serial |-> serial,
     time_frequencies |-> NSets(file)]
MeshedRegionV(file, serial) ==
    [kind |-> "MeshedRegion", file |-> file, serial |-> serial]

\* Metadata._cache_streams_provider: a new stream provider operator
\* connected to the current data sources
_cache_streams_provider(data_sources) ==
    OperatorV("stream_provider", [data_sources |-> data_sources])

\* mutation of _load_result_info: the output is read a second time
_load_result_info_twice(stream_provider, ev) ==
    [value |-> ResultInfoV(stream_provider.conn.data_sources.file),
     evals |-> [ev EXCEPT !.ResultInfoProvider = @ + 2]]

\* Metadata._load_result_info: ResultInfoProvider connected to the stream
\* provider's outputs, output 0 read once
_load_result_info(stream_provider, ev) ==
    [value |-> ResultInfoV(stream_provider.conn.data_sources.file),
     evals |-> [ev EXCEPT !.ResultInfoProvider = @ + 1]]

\* the three branches of Metadata._set_data_sources on var_inp
DataSourcesOf(var_inp) ==
    CASE var_inp.kind = "DataSources" -> var_inp
      [] var_inp.kind = "path"        -> DataSourcesV(var_inp.file)
      [] OTHER                        -> DataSourcesV(NoFile)

\* Metadata.time_freq_support: evaluate TimeFreqSupportProvider only when
\* the cache is empty; returns the cache, the counters and the value read
time_freq_support(cache, stream_provider, ev) ==
    IF cache = None
    THEN LET tfs == TimeFreqSupportV(stream_provider.conn.data_sources.file,
                                     ev.TimeFreqSupportProvider + 1)
         IN [cache |-> tfs, value |-> tfs,
             evals |-> [ev EXCEPT !.TimeFreqSupportProvider = @ + 1]]
    ELSE [cache |-> cache, value |-> cache, evals |-> ev]

\* Metadata.mesh_provider: a MeshProvider operator connected to the stream
\* provider's outputs (the MeshSelectionManagerProvider run before it is
\* wrapped in a bare try/except and its outcome discarded)
mesh_provider(stream_provider) ==
    OperatorV("MeshProvider", [streams |-> stream_provider])

\* mutation of meshed_region: the cache is never consulted
meshed_region_uncached(cache, stream_provider, ev) ==
    LET mesh == MeshedRegionV(stream_provider.conn.data_sources.file,
                              ev.MeshProvider + 1)
    IN [cache |-> mesh, value |-> mesh,
        evals |-> [ev EXCEPT !.MeshProvider = @ + 1]]

\* Metadata.meshed_region: evaluate the mesh provider only when the cache
\* is empty
meshed_region(cache, stream_provider, ev) ==
    IF cache = None
    THEN LET mesh == MeshedRegionV(
                 mesh_provider(stream_provider).conn.streams.conn.data_sources.file,
                 ev.MeshProvider + 1)
         IN [cache |-> mesh, value |-> mesh,
             evals |-> [ev EXCEPT !.MeshProvider = @ + 1]]
    ELSE [cache |-> cache, value |-> cache, evals |-> ev]

\* Metadata.named_selection: meshed_region.named_selection(name), a round
\* trip that returns the (non-empty) Scoping of the cached mesh
NamedSelectionV(mesh, name) ==
    ScopingV(<<10 + mesh.file>>, "Nodal")
named_selection(cache, stream_provider, ev, name) ==
    LET m == meshed_region(cache, stream_provider, ev)
    IN [cache |-> m.cache, evals |-> m.evals,
        value |-> NamedSelectionV(m.value, name)]

(***************************************************************************)
(* Model.__connect_op__ and Result (results.py)                            *)
(***************************************************************************)
NoConn ==
    [time_scoping |-> None, mesh_scoping |-> None,
     requested_location |-> None, streams |-> None, data_sources |-> None]

\* the operator a Result wraps; `pins` holds which of the two data pins
\* ("streams", "data_sources") its inputs declare
ResultOperator(pins) ==
    [kind |-> "Operator", name |-> "result", pins |-> pins, conn |-> NoConn]

OutputsOf(op) == [kind |-> "Outputs", of |-> op]

\* one entry of result_info.available_results: the quantity's name (also
\* the name of its operator) and the data pins that operator declares
ResultTypeV(name, pins) ==
    [kind |-> "available_result", name |-> name, pins |-> pins]

\* mutation of __connect_op__: two independent tests instead of if / elif
__connect_op__both(op, stream_provider, data_sources) ==
    LET c1 == IF stream_provider # None /\ "streams" \in op.pins
              THEN Connect(op.conn, "streams", OutputsOf(stream_provider))
              ELSE op.conn
        c2 == IF data_sources # None /\ "data_sources" \in op.pins
              THEN Connect(c1, "data_sources", data_sources)
              ELSE c1
    IN [op EXCEPT !.conn = c2]

\* Model.__connect_op__
__connect_op__(op, stream_provider, data_sources) ==
    IF stream_provider # None /\ "streams" \in op.pins
    THEN [op EXCEPT !.conn = Connect(@, "streams", OutputsOf(stream_provider))]
    ELSE IF data_sources # None /\ "data_sources" \in op.pins
    THEN [op EXCEPT !.conn = Connect(@, "data_sources", data_sources)]
    ELSE op

\* Result._result_info.native_scoping_location of the wrapped quantity
native_scoping_location == "Nodal"

\* Result.__call__: the operator after the conditional connects
__call__(op, time_scoping, mesh_scoping) ==
    LET c1 == IF Truthy(time_scoping)
              THEN Connect(op.conn, "time_scoping", time_scoping)
              ELSE IF Truthy(_time_scoping)
              THEN Connect(op.conn, "time_scoping", _time_scoping)
              ELSE op.conn
        c2 == IF Truthy(mesh_scoping)
              THEN Connect(c1, "mesh_scoping", mesh_scoping)
              ELSE IF Truthy(_mesh_scoping)
              THEN Connect(c1, "mesh_scoping", _mesh_scoping)
              ELSE c1
        c3 == IF Truthy(_location)
              THEN Connect(c2, "requested_location", _location)
              ELSE c2
    IN [op EXCEPT !.conn = c3]

\* Output call (spec 4.3): one remote evaluation carrying the connected
\* inputs, a fresh container decoded from the response
OutputRead(op, ev) ==
    [request |-> op.conn,
     evals |-> [ev EXCEPT !.result = @ + 1],
     value |-> [kind |-> "FieldsContainer", serial |-> ev.result + 1]]

\* mutation of Specialize: the two specialized containers are swapped
Specialize_swapped(fc, specific_fc_type) ==
    IF specific_fc_type = StrV("shape")
    THEN [fc EXCEPT !.kind = "BodyFieldsContainer"]
    ELSE IF specific_fc_type = StrV("body")
    THEN [fc EXCEPT !.kind = "ElShapeFieldsContainer"]
    ELSE fc

\* the container Result.eval returns for a given _specific_fc_type
Specialize(fc, specific_fc_type) ==
    IF specific_fc_type = StrV("shape")
    THEN [fc EXCEPT !.kind = "ElShapeFieldsContainer"]
    ELSE IF specific_fc_type = StrV("body")
    THEN [fc EXCEPT !.kind = "BodyFieldsContainer"]
    ELSE fc

\* number of split operators chained through mesh_scoping
RECURSIVE SplitDepth(_)
SplitDepth(v) ==
    IF v.kind = "Operator" THEN 1 + SplitDepth(v.conn.mesh_scoping) ELSE 0

\* mutation of SplitOperator: the previous mesh scoping is never forwarded
SplitOperator_unrestricted(prop, previous_mesh_scoping, stream_provider, accepted) ==
    OperatorV("split_on_property_type",
              [requested_location |-> StrV(native_scoping_location),
               mesh |-> mesh_provider(stream_provider),
               label1 |-> StrV(prop),
               mesh_scoping |-> None])

\* Result._add_split_on_property_type: the split operator; `accepted` is
\* whether the connect of the previous mesh scoping went through (a failure
\* is swallowed by the bare except)
SplitOperator(prop, previous_mesh_scoping, stream_provider, accepted) ==
    LET c0 == [requested_location |-> StrV(native_scoping_location),
               mesh |-> mesh_provider(stream_provider),
               label1 |-> StrV(prop),
               mesh_scoping |-> None]
    IN OperatorV("split_on_property_type",
                 IF Truthy(previous_mesh_scoping) /\ accepted
                 THEN Connect(c0, "mesh_scoping", previous_mesh_scoping)
                 ELSE c0)

(***************************************************************************)
(* Inputs the caller may supply                                            *)
(***************************************************************************)
\* time scopings given to on_time_scoping or as a call-time override: the
\* time 0 and a list of set ids
TimeArgs == {NumV(0), ListV(<<3>>)}
\* mesh scopings given to on_mesh_scoping: a list of ids or a Scoping
MeshArgs == {ListV(<<5>>), ScopingV(<<6>>, "Elemental")}
\* mesh scopings given as a call-time override
MeshOverrides == {ListV(<<>>), ScopingV(<<6>>, "Elemental")}
Locations == {StrV("Nodal")}
NamedSelections == {"_CONSTRAINEDNODES"}
\* the data pins the wrapped operator may declare
PinSets == {{"streams", "data_sources"}, {"data_sources"}}
\* what Model(data_sources) may be given
DataSourceArgs == {PathV(f) : f \in Files} \cup {DataSourcesV(f) : f \in Files}

(***************************************************************************)
(* Initial state: Model(data_sources) built, one Result taken from         *)
(* model.results                                                           *)
(***************************************************************************)
Init ==
    \E var_inp \in DataSourceArgs, pins \in PinSets :
        LET ds == DataSourcesOf(var_inp)
            sp == _cache_streams_provider(ds)
            ri == _load_result_info(sp, [ResultInfoProvider |-> 0,
                                         TimeFreqSupportProvider |-> 0,
                                         MeshProvider |-> 0, result |-> 0])
            op == __connect_op__(ResultOperator(pins), sp, ds)
        IN /\ _data_sources = ds
           /\ _stream_provider = sp
           /\ result_info = ri.value
           /\ _meshed_region = None
           /\ _time_freq_support = None
           /\ evals = ri.evals
           /\ _time_scoping = None
           /\ _mesh_scoping = None
           /\ _location = None
           /\ _specific_fc_type = None
           /\ _operator = op
           /\ constructed = op
           /\ request = None
           /\ last = [op |-> "Model", a1 |-> None, a2 |-> None, ret |-> None]
           /\ prev = "None"
           /\ called = FALSE
           /\ evalCalls = 0
           /\ outReads = 0
           /\ steps = 0
           /\ op_name = ""
           /\ inputs = None
           /\ connects = <<>>
           /\ sent = None
           /\ sentAt = 0
           /\ transport = 0
           /\ error = "None"
           /\ failure = None
           /\ raised = None
           /\ _op_map_rev = <<"result">>
           /\ _result_info = ResultTypeV("result", pins)
           /\ held = <<>>
           /\ field_request = None
           /\ fields = 0

(***************************************************************************)
(* Metadata operations                                                     *)
(***************************************************************************)
\* Metadata._set_data_sources(var_inp)
_set_data_sources(var_inp) ==
    /\ _data_sources' = DataSourcesOf(var_inp)
    /\ _stream_provider' = _cache_streams_provider(_data_sources')
    /\ UNCHANGED <<result_info, _meshed_region, _time_freq_support>>
    /\ UNCHANGED <<resultVars, _operator, evals, request, called,
                   constructed, evalCalls, outReads>>
    /\ Log("_set_data_sources", DataSourcesOf(var_inp), None, None)

\* reading the property Metadata.time_freq_support
read_time_freq_support ==
    LET r == time_freq_support(_time_freq_support, _stream_provider, evals)
    IN /\ _time_freq_support' = r.cache
       /\ evals' = r.evals
       /\ UNCHANGED <<_data_sources, _stream_provider, result_info,
                      _meshed_region>>
       /\ UNCHANGED <<resultVars, _operator, request, called, constructed,
                      evalCalls, outReads>>
       /\ Log("time_freq_support", None, None, r.value)

\* reading the property Metadata.meshed_region
read_meshed_region ==
    LET r == meshed_region(_meshed_region, _stream_provider, evals)
    IN /\ _meshed_region' = r.cache
       /\ evals' = r.evals
       /\ UNCHANGED <<_data_sources, _stream_provider, result_info,
                      _time_freq_support>>
       /\ UNCHANGED <<resultVars, _operator, request, called, constructed,
                      evalCalls, outReads>>
       /\ Log("meshed_region", None, None, r.value)

(***************************************************************************)
(* Result selectors                                                        *)
(***************************************************************************)
resultFrame ==
    UNCHANGED <<_data_sources, _stream_provider, result_info, _operator,
                request, called, constructed, evalCalls, outReads>>

on_all_time_freqs ==
    LET r == time_freq_support(_time_freq_support, _stream_provider, evals)
    IN /\ _time_scoping' = ListV(Range1(r.value.time_frequencies))
       /\ _time_freq_support' = r.cache
       /\ evals' = r.evals
       /\ UNCHANGED <<_mesh_scoping, _location, _specific_fc_type,
                      _meshed_region>>
       /\ resultFrame
       /\ Log("on_all_time_freqs", None, None, Self)

on_first_time_freq ==
    /\ _time_scoping' = NumV(1)
    /\ UNCHANGED <<_mesh_scoping, _location, _specific_fc_type,
                   _meshed_region, _time_freq_support, evals>>
    /\ resultFrame
    /\ Log("on_first_time_freq", None, None, Self)

\* mutation of on_last_time_freq: a time scoping already chosen is kept
on_last_time_freq_keep ==
    LET r == time_freq_support(_time_freq_support, _stream_provider, evals)
    IN /\ _time_scoping' = IF _time_scoping = None
                           THEN NumV(r.value.time_frequencies)
                           ELSE _time_scoping
       /\ _time_freq_support' = r.cache
       /\ evals' = r.evals
       /\ UNCHANGED <<_mesh_scoping, _location, _specific_fc_type,
                      _meshed_region>>
       /\ resultFrame
       /\ Log("on_last_time_freq", None, None, Self)

on_last_time_freq ==
    LET r == time_freq_support(_time_freq_support, _stream_provider, evals)
    IN /\ _time_scoping' = NumV(r.value.time_frequencies)
       /\ _time_freq_support' = r.cache
       /\ evals' = r.evals
       /\ UNCHANGED <<_mesh_scoping, _location, _specific_fc_type,
                      _meshed_region>>
       /\ resultFrame
       /\ Log("on_last_time_freq", None, None, Self)

on_time_scoping(time_scoping) ==
    /\ _time_scoping' = time_scoping
    /\ UNCHANGED <<_mesh_scoping, _location, _specific_fc_type,
                   _meshed_region, _time_freq_support, evals>>
    /\ resultFrame
    /\ Log("on_time_scoping", time_scoping, None, Self)

on_named_selection(name) ==
    LET r == named_selection(_meshed_region, _stream_provider, evals, name)
    IN /\ _mesh_scoping' = r.value
       /\ _meshed_region' = r.cache
       /\ evals' = r.evals
       /\ UNCHANGED <<_time_scoping, _location, _specific_fc_type,
                      _time_freq_support>>
       /\ resultFrame
       /\ Log("on_named_selection", StrV(name), None, Self)

\* Result._add_split_on_property_type(prop), after _specific_fc_type is set
_add_split_on_property_type(fc_type, prop, accepted) ==
    /\ SplitDepth(_mesh_scoping) < MaxSplitDepth \/ ~accepted
    /\ _specific_fc_type' = StrV(fc_type)
    /\ _mesh_scoping' =
           SplitOperator(prop, _mesh_scoping, _stream_provider, accepted)
    /\ UNCHANGED <<_time_scoping, _location, _meshed_region,
                   _time_freq_support, evals>>
    /\ resultFrame

\* whether connecting `previous` to the split operator's mesh_scoping pin
\* goes through: a Scoping is accepted; the pin's answer to another
\* operator's output is not decided by this layer
Accepts(previous) ==
    IF previous.kind = "Operator" THEN BOOLEAN ELSE {TRUE}

\* what the refused connect raises inside _add_split_on_property_type
ConnectRefused == ExcV("Exception", <<"mesh_scoping refused">>)

split_by_body ==
    \E accepted \in Accepts(_mesh_scoping) :
        /\ _add_split_on_property_type("body", "mat", accepted)
        /\ Outcome("split_by_body", None, None, Self,
                   IF accepted THEN None
                   ELSE FailureV("_add_split_on_property_type",
                                 ConnectRefused),
                   None)

split_by_shape ==
    \E accepted \in Accepts(_mesh_scoping) :
        /\ _add_split_on_property_type("shape", "elshape", accepted)
        /\ Outcome("split_by_shape", None, None, Self,
                   IF accepted THEN None
                   ELSE FailureV("_add_split_on_property_type",
                                 ConnectRefused),
                   None)

on_mesh_scoping(mesh_scoping) ==
    /\ _mesh_scoping' =
           IF mesh_scoping.kind = "list"
           THEN ScopingV(mesh_scoping.ids, native_scoping_location)
           ELSE mesh_scoping
    /\ UNCHANGED <<_time_scoping, _location, _specific_fc_type,
                   _meshed_region, _time_freq_support, evals>>
    /\ resultFrame
    /\ Log("on_mesh_scoping", mesh_scoping, None, Self)

\* mutation of on_location: the location is connected at once
on_location_eager(location) ==
    /\ _location' = location
    /\ _operator' = [_operator EXCEPT
                         !.conn = Connect(@, "requested_location", location)]
    /\ UNCHANGED <<_time_scoping, _mesh_scoping, _specific_fc_type,
                   _meshed_region, _time_freq_support, evals>>
    /\ UNCHANGED <<_data_sources, _stream_provider, result_info,
                   request, called, constructed, evalCalls, outReads>>
    /\ Log("on_location", location, None, Self)

on_location(location) ==
    /\ _location' = location
    /\ UNCHANGED <<_time_scoping, _mesh_scoping, _specific_fc_type,
                   _meshed_region, _time_freq_support, evals>>
    /\ resultFrame
    /\ Log("on_location", location, None, Self)

(***************************************************************************)
(* Result.__call__, Result.eval and output reads                           *)
(***************************************************************************)
OperatorRef == [kind |-> "ref", to |-> "_operator"]

\* result(time_scoping, mesh_scoping): connects, returns the live operator
call(time_scoping, mesh_scoping) ==
    /\ _operator' = __call__(_operator, time_scoping, mesh_scoping)
    /\ called' = TRUE
    /\ UNCHANGED <<metaVars, resultVars, evals, request, constructed,
                   evalCalls, outReads>>
    /\ Log("__call__", time_scoping, mesh_scoping, OperatorRef)

\* mutation of eval: the container of a first evaluation is reused
eval_cached ==
    /\ LET op == __call__(_operator, None, None)
           r  == IF evals.result = 0
                 THEN OutputRead(op, evals)
                 ELSE [request |-> request, evals |-> evals,
                       value |-> [kind |-> "FieldsContainer",
                                  serial |-> evals.result]]
       IN /\ _operator' = op
          /\ request' = r.request
          /\ evals' = r.evals
          /\ Log("eval", None, None, Specialize(r.value, _specific_fc_type))
    /\ called' = TRUE
    /\ evalCalls' = evalCalls + 1
    /\ UNCHANGED <<metaVars, resultVars, constructed, outReads>>

\* Result.eval()
eval ==
    /\ LET op == __call__(_operator, None, None)
           r  == OutputRead(op, evals)
       IN /\ _operator' = op
          /\ request' = r.request
          /\ evals' = r.evals
          /\ Log("eval", None, None, Specialize(r.value, _specific_fc_type))
    /\ called' = TRUE
    /\ evalCalls' = evalCalls + 1
    /\ UNCHANGED <<metaVars, resultVars, constructed, outReads>>

\* op.outputs.fields_container() on the operator a __call__ returned
read_output ==
    /\ called
    /\ LET r == OutputRead(_operator, evals)
       IN /\ request' = r.request
          /\ evals' = r.evals
          /\ Log("outputs.fields_container", None, None, r.value)
    /\ outReads' = outReads + 1
    /\ UNCHANGED <<metaVars, resultVars, _operator, called, constructed,
                   evalCalls>>

Next ==
    \/ \E var_inp \in DataSourceArgs : _set_data_sources(var_inp)
    \/ read_time_freq_support
    \/ read_meshed_region
    \/ on_all_time_freqs
    \/ on_first_time_freq
    \/ on_last_time_freq
    \/ \E time_scoping \in TimeArgs : on_time_scoping(time_scoping)
    \/ \E name \in NamedSelections : on_named_selection(name)
    \/ split_by_body
    \/ split_by_shape
    \/ \E mesh_scoping \in MeshArgs : on_mesh_scoping(mesh_scoping)
    \/ \E location \in Locations : on_location(location)
    \/ \E time_scoping \in {None} \cup TimeArgs,
          mesh_scoping \in {None} \cup MeshOverrides :
           call(time_scoping, mesh_scoping)
    \/ eval
    \/ read_output

Spec == Init /\ [][Next]_vars

(***************************************************************************)
(* Properties of Result and Metadata, checked under Spec                   *)
(***************************************************************************)
TimeSelectors ==
    {"on_all_time_freqs", "on_first_time_freq", "on_last_time_freq",
     "on_time_scoping"}
Selectors ==
    TimeSelectors \cup {"on_named_selection", "on_mesh_scoping",
                        "split_by_body", "split_by_shape", "on_location"}

\* C1: every result(time_scoping, mesh_scoping) step connects, for each of
\* the two scopings, the override when one is passed and otherwise the stored
\* selector value when set, connects the stored location when set, returns
\* the underlying operator and runs no evaluation.
C1_CallMergesOverrides ==
    [][last'.op = "__call__" =>
         /\ (last'.a1 # None => _operator'.conn.time_scoping = last'.a1)
         /\ (last'.a1 = None /\ _time_scoping # None
                => _operator'.conn.time_scoping = _time_scoping)
         /\ (last'.a2 # None => _operator'.conn.mesh_scoping = last'.a2)
         /\ (last'.a2 = None /\ _mesh_scoping # None
                => _operator'.conn.mesh_scoping = _mesh_scoping)
         /\ (_location # None
                => _operator'.conn.requested_location = _location)
         /\ last'.ret = OperatorRef
         /\ evals' = evals]_vars

\* C2: as long as neither __call__ nor eval has been invoked, the underlying
\* operator is exactly as Result.__init__ left it, whatever selectors ran.
C2_SelectorsLeaveOperator ==
    ~called => _operator = constructed

C2_Witness ==
    /\ ~called
    /\ prev \in Selectors
    /\ last.op \in {"split_by_body", "split_by_shape"}
    /\ _time_scoping # None
    /\ _mesh_scoping.kind = "Operator"
    /\ _location # None

\* C3: the server has run the Result's operator once per eval() and once
\* per output read, never fewer: nothing is served from a cache.
C3_EvalNeverCached ==
    evals.result = evalCalls + outReads

C3_Witness ==
    /\ prev = "eval"
    /\ last.op = "eval"
    /\ evalCalls >= 2
    /\ evals.result = evalCalls + outReads

\* C7: an eval() directly after on_all_time_freqs sends the time scoping
\* [1, ..., n_sets], n_sets being the length of the cached time/frequency
\* support.
C7_AllTimeFreqsSent ==
    (prev = "on_all_time_freqs" /\ last.op = "eval")
        => request.time_scoping =
               ListV(Range1(_time_freq_support.time_frequencies))

\* C8: after a time selector, _time_scoping is the value that selector
\* writes, whatever was stored before: 1 for on_first_time_freq, n_sets for
\* on_last_time_freq, [1..n_sets] for on_all_time_freqs, the argument for
\* on_time_scoping.
C8_TimeSelectorsOverwrite ==
    /\ last.op = "on_first_time_freq" => _time_scoping = NumV(1)
    /\ last.op = "on_last_time_freq"
           => _time_scoping = NumV(_time_freq_support.time_frequencies)
    /\ last.op = "on_all_time_freqs"
           => _time_scoping =
                  ListV(Range1(_time_freq_support.time_frequencies))
    /\ last.op = "on_time_scoping" => _time_scoping = last.a1

C8_Witness ==
    /\ prev = "on_first_time_freq"
    /\ last.op = "on_last_time_freq"
    /\ _time_freq_support.time_frequencies # 1
    /\ _time_scoping = NumV(_time_freq_support.time_frequencies)

\* C9: after _set_data_sources, result_info and _stream_provider both come
\* from the new data sources.
C9_SetDataSourcesRecomputes ==
    last.op = "_set_data_sources"
        => /\ _stream_provider.conn.data_sources = _data_sources
           /\ result_info.file = _data_sources.file

\* C10: the mesh provider and the time/frequency provider are each
\* evaluated at most once, by the first read; every read returns the cached
\* object; once filled a cache never changes, not even when the data
\* sources are replaced.
C10_MetadataCached ==
    /\ [](/\ evals.MeshProvider = IF _meshed_region = None THEN 0 ELSE 1
          /\ evals.TimeFreqSupportProvider =
                 IF _time_freq_support = None THEN 0 ELSE 1
          /\ last.op = "meshed_region"
                 => last.ret = _meshed_region /\ _meshed_region # None
          /\ last.op = "time_freq_support"
                 => last.ret = _time_freq_support /\ _time_freq_support # None)
    /\ [][/\ _meshed_region # None => _meshed_region' = _meshed_region
          /\ _time_freq_support # None
                 => _time_freq_support' = _time_freq_support]_vars

C10_Witness ==
    /\ prev = "_set_data_sources"
    /\ last.op = "meshed_region"
    /\ last.ret = _meshed_region
    /\ _meshed_region.file # _data_sources.file
    /\ evals.MeshProvider = 1

\* C22: every eval() connects nothing but the stored selector values (no
\* override), runs one evaluation of the underlying operator that carries
\* its connected inputs, and returns the container read from it: a
\* BodyFieldsContainer exactly when _specific_fc_type is "body", an
\* ElShapeFieldsContainer exactly when it is "shape", the plain fields
\* container when it is unset.
C22_EvalContainerType ==
    [][last'.op = "eval" =>
         /\ _operator'.conn.time_scoping
                \in {_operator.conn.time_scoping, _time_scoping}
         /\ _operator'.conn.mesh_scoping
                \in {_operator.conn.mesh_scoping, _mesh_scoping}
         /\ _operator'.conn.requested_location
                \in {_operator.conn.requested_location, _location}
         /\ evals'.result = evals.result + 1
         /\ request' = _operator'.conn
         /\ last'.ret.serial = evals'.result
         /\ last'.ret.kind = "BodyFieldsContainer"
                <=> _specific_fc_type = StrV("body")
         /\ last'.ret.kind = "ElShapeFieldsContainer"
                <=> _specific_fc_type = StrV("shape")
         /\ last'.ret.kind = "FieldsContainer"
                <=> _specific_fc_type = None]_vars

C22_Witness ==
    /\ prev = "split_by_shape"
    /\ last.op = "eval"
    /\ _specific_fc_type = StrV("shape")
    /\ last.ret.kind = "ElShapeFieldsContainer"
    /\ request.mesh_scoping = _mesh_scoping

SplitSelectors == {"split_by_body", "split_by_shape"}
\* the property key each split selector passes on
SplitProperty(selector) ==
    IF selector = "split_by_body" THEN "mat" ELSE "elshape"

StoredOrNothing(connected, stored) ==
    /\ Truthy(stored) => connected = stored
    /\ stored = None => connected = None

\* C26: a result(time_scoping, mesh_scoping) step leaves the four stored
\* selector fields as they were, and every eval() step, and every
\* result(...) step for the scoping it passes no override for, leaves the
\* underlying operator connected to the stored selector value, or not
\* connected at all when no selector was set: an override of an earlier
\* call is not carried over.
C26_OverrideForOneCallOnly ==
    [][last'.op \in {"__call__", "eval"} =>
         /\ <<_time_scoping', _mesh_scoping', _location', _specific_fc_type'>>
                = <<_time_scoping, _mesh_scoping, _location, _specific_fc_type>>
         /\ last'.a1 = None
                => StoredOrNothing(_operator'.conn.time_scoping, _time_scoping)
         /\ last'.a2 = None
                => StoredOrNothing(_operator'.conn.mesh_scoping, _mesh_scoping)
         /\ last'.op = "eval"
                => /\ StoredOrNothing(request'.time_scoping, _time_scoping)
                   /\ StoredOrNothing(request'.mesh_scoping, _mesh_scoping)]_vars

\* C27: after every result(...) or eval() step the underlying operator is
\* connected to each value that is not None among the time scoping, the
\* mesh scoping (the override when one is passed, else the stored value)
\* and the stored location, whether or not Python takes the value for
\* false: the time 0, an empty list, the n_sets = 0 of on_last_time_freq.
C27_FalsyValuesConnected ==
    [][last'.op \in {"__call__", "eval"} =>
         LET time == IF last'.a1 # None THEN last'.a1 ELSE _time_scoping
             mesh == IF last'.a2 # None THEN last'.a2 ELSE _mesh_scoping
         IN /\ time # None => _operator'.conn.time_scoping = time
            /\ mesh # None => _operator'.conn.mesh_scoping = mesh
            /\ _location # None
                   => _operator'.conn.requested_location = _location]_vars

\* C28: whenever _specific_fc_type is set, the mesh scoping in effect is
\* the split operator of the matching selector: keyed by mat for "body", by
\* elshape for "shape"; no selector leaves a specialization standing over a
\* mesh scoping that does not split.
C28_SpecializationMatchesSplit ==
    _specific_fc_type # None =>
        /\ _mesh_scoping.kind = "Operator"
        /\ _mesh_scoping.name = "split_on_property_type"
        /\ _mesh_scoping.conn.label1 =
               IF _specific_fc_type = StrV("body") THEN StrV("mat")
               ELSE StrV("elshape")

(***************************************************************************)
(* Generated operators (operators/mesh/mesh_cut.py,                        *)
(* operators/result/nodal_averaged_stresses.py)                            *)
(***************************************************************************)
FieldV == [kind |-> "Field"]
FloatV(x) == [kind |-> "float", n |-> x]
BoolV(b) == [kind |-> "bool", b |-> b]
FieldsContainerV == [kind |-> "FieldsContainer", serial |-> 0]
StreamsContainerV == [kind |-> "StreamsContainer"]
ArgsV(args) == [kind |-> "args", args |-> args]

\* the type tag under which a Python value is matched against type_names
TypeOf(v) ==
    CASE v.kind = "Field"            -> "field"
      [] v.kind = "float"            -> "double"
      [] v.kind = "bool"             -> "bool"
      [] v.kind = "Scoping"          -> "scoping"
      [] v.kind = "list"             -> "vector<int32>"
      [] v.kind = "DataSources"      -> "data_sources"
      [] v.kind = "FieldsContainer"  -> "fields_container"
      [] v.kind = "StreamsContainer" -> "streams_container"
      [] v.kind = "MeshedRegion"     -> "abstract_meshed_region"
      [] OTHER                       -> "unknown"

Pin(type_names, optional) == [type_names |-> type_names, optional |-> optional]

\* mesh_cut._spec(): input pins 0, 1, 3, 4
mesh_cut_spec ==
    [field          |-> Pin({"field"}, FALSE),
     iso_value      |-> Pin({"double"}, FALSE),
     closed_surface |-> Pin({"double"}, FALSE),
     slice_surfaces |-> Pin({"bool"}, FALSE)]

\* nodal_averaged_stresses._spec(): input pins 0, 1, 2, 3, 4, 7
nodal_averaged_stresses_spec ==
    [time_scoping      |-> Pin({"scoping", "vector<int32>"}, TRUE),
     mesh_scoping      |-> Pin({"scopings_container", "scoping",
                                "vector<int32>"}, TRUE),
     fields_container  |-> Pin({"fields_container"}, TRUE),
     streams_container |-> Pin({"streams_container", "stream"}, TRUE),
     data_sources      |-> Pin({"data_sources"}, FALSE),
     mesh              |-> Pin({"abstract_meshed_region"}, TRUE)]

\* the order in which each constructor declares and connects its arguments
mesh_cut_args == <<"field", "iso_value", "closed_surface", "slice_surfaces">>
nodal_averaged_stresses_args ==
    <<"time_scoping", "mesh_scoping", "fields_container",
      "streams_container", "data_sources", "mesh">>

SpecOf(name) ==
    IF name = "mesh_cut" THEN mesh_cut_spec ELSE nodal_averaged_stresses_spec
ArgsOf(name) ==
    IF name = "mesh_cut" THEN mesh_cut_args ELSE nodal_averaged_stresses_args

\* an operator under construction or in use: connections, the log of
\* connects that went through, the exception raised
Unconnected(name) ==
    [inputs |-> [pin \in DOMAIN SpecOf(name) |-> None],
     connects |-> <<>>, error |-> "None"]

\* mutation of InputConnect: no check against type_names
InputConnectUnchecked(st, pinspec, pin, value) ==
    [inputs |-> Connect(st.inputs, pin, value),
     connects |-> Append(st.connects, [pin |-> pin, value |-> value]),
     error |-> "None"]

\* Input.connect (spec 4.2): a value whose type is not in the pin's
\* type_names raises a type error, locally; otherwise the pin is rebound
InputConnect(st, pinspec, pin, value) ==
    IF TypeOf(value) \in pinspec.type_names
    THEN [inputs |-> Connect(st.inputs, pin, value),
          connects |-> Append(st.connects, [pin |-> pin, value |-> value]),
          error |-> "None"]
    ELSE [st EXCEPT !.error = "TypeError"]

\* mutation of ConnectIfNotNone: `if value:` instead of `if value != None:`
ConnectIfTruthy(st, pinspec, pin, value) ==
    IF st.error # "None" THEN st
    ELSE IF Truthy(value) THEN InputConnect(st, pinspec, pin, value)
    ELSE st

\* one `if value != None: self.inputs.<pin>.connect(value)` of a generated
\* constructor; nothing more runs once a connect has raised
ConnectIfNotNone(st, pinspec, pin, value) ==
    IF st.error # "None" THEN st
    ELSE IF value # None THEN InputConnect(st, pinspec, pin, value)
    ELSE st

\* mesh_cut.__init__
mesh_cut_init(field, iso_value, closed_surface, slice_surfaces) ==
    LET s0 == Unconnected("mesh_cut")
        s1 == ConnectIfNotNone(s0, mesh_cut_spec.field, "field", field)
        s2 == ConnectIfNotNone(s1, mesh_cut_spec.iso_value,
                               "iso_value", iso_value)
        s3 == ConnectIfNotNone(s2, mesh_cut_spec.closed_surface,
                               "closed_surface", closed_surface)
        s4 == ConnectIfNotNone(s3, mesh_cut_spec.slice_surfaces,
                               "slice_surfaces", slice_surfaces)
    IN s4

\* nodal_averaged_stresses.__init__
nodal_averaged_stresses_init(time_scoping, mesh_scoping, fields_container, streams_container, data_sources, mesh) ==
    LET sp == nodal_averaged_stresses_spec
        s0 == Unconnected("nodal_averaged_stresses")
        s1 == ConnectIfNotNone(s0, sp.time_scoping,
                               "time_scoping", time_scoping)
        s2 == ConnectIfNotNone(s1, sp.mesh_scoping,
                               "mesh_scoping", mesh_scoping)
        s3 == ConnectIfNotNone(s2, sp.fields_container,
                               "fields_container", fields_container)
        s4 == ConnectIfNotNone(s3, sp.streams_container,
                               "streams_container", streams_container)
        s5 == ConnectIfNotNone(s4, sp.data_sources,
                               "data_sources", data_sources)
        s6 == ConnectIfNotNone(s5, sp.mesh, "mesh", mesh)
    IN s6

\* an operation on a generated operator
GenLog(op, a1, a2, ret) ==
    /\ History(op, a1, a2, ret)
    /\ UNCHANGED <<modelVars, outcomeVars, registryVars, factoryVars>>

\* the state an instance is left in by its constructor
Constructed(name, st) ==
    /\ op_name = ""
    /\ error = "None"
    /\ op_name' = IF st.error = "None" THEN name ELSE ""
    /\ inputs' = st.inputs
    /\ connects' = st.connects
    /\ error' = st.error
    /\ UNCHANGED <<sent, sentAt, transport>>

mesh_cut(field, iso_value, closed_surface, slice_surfaces) ==
    /\ Constructed("mesh_cut",
           mesh_cut_init(field, iso_value, closed_surface, slice_surfaces))
    /\ GenLog("mesh_cut",
              ArgsV(<<field, iso_value, closed_surface, slice_surfaces>>),
              None, None)

nodal_averaged_stresses(time_scoping, mesh_scoping, fields_container, streams_container, data_sources, mesh) ==
    /\ Constructed("nodal_averaged_stresses",
           nodal_averaged_stresses_init(time_scoping, mesh_scoping,
               fields_container, streams_container, data_sources, mesh))
    /\ GenLog("nodal_averaged_stresses",
              ArgsV(<<time_scoping, mesh_scoping, fields_container,
                      streams_container, data_sources, mesh>>),
              None, None)

\* op.inputs.<pin>.connect(value), or op.inputs.<pin>(value)
connect(pin, value) ==
    /\ op_name # ""
    /\ LET st == InputConnect([inputs |-> inputs, connects |-> connects,
                               error |-> "None"],
                              SpecOf(op_name)[pin], pin, value)
       IN /\ inputs' = st.inputs
          /\ connects' = st.connects
          /\ error' = st.error
    /\ UNCHANGED <<op_name, sent, sentAt, transport>>
    /\ GenLog("connect", StrV(pin), value, None)

\* op.outputs.<pin>() (spec 4.3): one request carrying the connected
\* inputs; the server rejects it when a non-optional pin is unconnected
read ==
    /\ op_name # ""
    /\ sent' = inputs
    /\ sentAt' = Len(connects)
    /\ transport' = transport + 1
    /\ error' = IF \E pin \in DOMAIN inputs :
                      ~SpecOf(op_name)[pin].optional /\ inputs[pin] = None
                THEN "DPFServerException" ELSE "None"
    /\ UNCHANGED <<op_name, inputs, connects>>
    /\ GenLog("outputs", None, None,
              IF error' = "None" THEN StrV("output") ELSE None)

\* arguments and values a caller may supply
FieldArgs == {None, FieldV, FloatV(0)}
IsoValueArgs == {None, FloatV(0), BoolV(FALSE)}
ClosedSurfaceArgs == {None, FloatV(0), FloatV(1)}
SliceSurfacesArgs == {None, BoolV(FALSE), FieldV}
MeshCutValues == {FieldV, FloatV(0), FloatV(1), BoolV(FALSE)}
NodalAveragedStressesValues ==
    {ScopingV(<<6>>, "Elemental"), ListV(<<>>), DataSourcesV(0)}
ValuesOf(name) ==
    IF name = "mesh_cut" THEN MeshCutValues ELSE NodalAveragedStressesValues

InitOp ==
    /\ op_name = ""
    /\ inputs = None
    /\ connects = <<>>
    /\ sent = None
    /\ sentAt = 0
    /\ transport = 0
    /\ error = "None"
    /\ last = [op |-> "None", a1 |-> None, a2 |-> None, ret |-> None]
    /\ prev = "None"
    /\ steps = 0
    /\ _data_sources = None
    /\ _stream_provider = None
    /\ result_info = None
    /\ _meshed_region = None
    /\ _time_freq_support = None
    /\ _time_scoping = None
    /\ _mesh_scoping = None
    /\ _location = None
    /\ _specific_fc_type = None
    /\ _operator = None
    /\ evals = None
    /\ request = None
    /\ called = FALSE
    /\ constructed = None
    /\ evalCalls = 0
    /\ outReads = 0
    /\ failure = None
    /\ raised = None
    /\ _op_map_rev = <<>>
    /\ _result_info = None
    /\ held = <<>>
    /\ field_request = None
    /\ fields = 0

NextOp ==
    \/ \E field \in FieldArgs, iso_value \in IsoValueArgs,
          closed_surface \in ClosedSurfaceArgs,
          slice_surfaces \in SliceSurfacesArgs :
           mesh_cut(field, iso_value, closed_surface, slice_surfaces)
    \/ \E time_scoping \in {None, ListV(<<>>)},
          mesh_scoping \in {None, ScopingV(<<6>>, "Elemental")},
          fields_container \in {None, FieldsContainerV},
          streams_container \in {None, StreamsContainerV},
          data_sources \in {None, DataSourcesV(0)},
          mesh \in {None, MeshedRegionV(0, 1)} :
           nodal_averaged_stresses(time_scoping, mesh_scoping,
               fields_container, streams_container, data_sources, mesh)
    \/ \E pin \in DOMAIN SpecOf(op_name), value \in ValuesOf(op_name) :
           connect(pin, value)
    \/ read

SpecOp == InitOp /\ [][NextOp]_vars

(***************************************************************************)
(* Properties of generated operators, checked under SpecOp                 *)
(***************************************************************************)
Constructors == {"mesh_cut", "nodal_averaged_stresses"}

\* C4: a connect of a value whose type is not among the pin's type_names
\* raises a type error, makes no call on the transport and leaves every
\* connection of the operator as it was.
C4_TypeMismatchRaisesLocally ==
    [][(/\ last'.op = "connect"
        /\ TypeOf(last'.a2) \notin SpecOf(op_name)[last'.a1.s].type_names)
          => /\ error' = "TypeError"
             /\ transport' = transport
             /\ inputs' = inputs]_vars

C4_Witness ==
    /\ last.op = "connect"
    /\ TypeOf(last.a2) \notin SpecOf(op_name)[last.a1.s].type_names
    /\ error = "TypeError"
    /\ transport = 0
    /\ inputs[last.a1.s] # None
    /\ inputs[last.a1.s] # last.a2

\* the value of the last connect to `pin` in a log of connects
RECURSIVE LastConnected(_, _)
LastConnected(log, pin) ==
    IF log = <<>> THEN None
    ELSE IF log[Len(log)].pin = pin THEN log[Len(log)].value
    ELSE LastConnected(SubSeq(log, 1, Len(log) - 1), pin)

\* C5: the inputs carried by an evaluation are, pin by pin, the value of the
\* last connect made to that pin before the read (none if there was none);
\* connects made after the read leave the request as it was sent.
C5_RequestIsLastConnected ==
    sent # None =>
        \A pin \in DOMAIN sent :
            sent[pin] = LastConnected(SubSeq(connects, 1, sentAt), pin)

C5_Witness ==
    /\ sent # None
    /\ prev = "outputs"
    /\ last.op = "connect"
    /\ error = "None"
    /\ Len(connects) > sentAt
    /\ sent[last.a1.s] # None
    /\ sent[last.a1.s] # inputs[last.a1.s]

\* the arguments of a constructor call that are not None, as connects in
\* declared order
RECURSIVE NotNoneArgs(_, _)
NotNoneArgs(names, args) ==
    IF names = <<>> THEN <<>>
    ELSE LET rest == NotNoneArgs(Tail(names), Tail(args))
         IN IF Head(args) = None THEN rest
            ELSE <<[pin |-> Head(names), value |-> Head(args)]>> \o rest

\* the longest prefix of a sequence of connects that are all well typed
RECURSIVE WellTypedPrefix(_, _)
WellTypedPrefix(spec, cs) ==
    IF cs = <<>> THEN <<>>
    ELSE IF TypeOf(Head(cs).value) \in spec[Head(cs).pin].type_names
    THEN <<Head(cs)>> \o WellTypedPrefix(spec, Tail(cs))
    ELSE <<>>

\* C6: a generated constructor connects exactly its arguments that are not
\* None, falsy ones included, each to its own pin and in declared order (up
\* to a first argument of the wrong type, whose connect raises); None
\* arguments cause no connect, and a missing non-optional pin raises nothing.
C6_ConstructorConnectsNotNone ==
    last.op \in Constructors =>
        LET wanted == NotNoneArgs(ArgsOf(last.op), last.a1.args)
            done   == WellTypedPrefix(SpecOf(last.op), wanted)
        IN /\ connects = done
           /\ error = IF done = wanted THEN "None" ELSE "TypeError"
           /\ \A pin \in DOMAIN inputs :
                  inputs[pin] = LastConnected(done, pin)

C6_Witness ==
    /\ last.op = "mesh_cut"
    /\ error = "None"
    /\ last.a1.args[1] = None
    /\ inputs.field = None
    /\ inputs.iso_value = FloatV(0)
    /\ inputs.slice_surfaces = BoolV(FALSE)
    /\ connects[1].pin = "iso_value"

(***************************************************************************)
(* Failures while a Model is built and used (model.py, results.py)         *)
(***************************************************************************)
\* at most this many result types are listed by a result file
MaxTypes == 2

\* the text Metadata._load_result_info looks for in e.details()
Diagnostic == <<"results file is not defined", "in the Data sources">>
UnableToOpen == ExcV("RuntimeError", <<"Unable to open result file">>)

\* `sub in text` for texts made of fragments
Contains(text, sub) ==
    \E i \in 0..(Len(text) - Len(sub)) : SubSeq(text, i + 1, i + Len(sub)) = sub

\* mutation of _load_result_info_except: every remote error is renamed
_load_result_info_except_any(e) ==
    IF e.class = "_InactiveRpcError" THEN UnableToOpen ELSE e

\* the except clause of Metadata._load_result_info: what leaves the method
\* when op.get_output raised e
_load_result_info_except(e) ==
    IF e.class = "_InactiveRpcError"
    THEN IF Contains(e.details, Diagnostic) THEN UnableToOpen ELSE e
    ELSE e

\* what get_output of the ResultInfoProvider may raise
RpcErrors ==
    {ExcV("_InactiveRpcError", d) :
        d \in {Diagnostic,
               <<"DPF:">> \o Diagnostic \o <<"(file.rst)">>,
               <<"results file is not defined">>,
               <<"in the Data sources", "results file is not defined">>,
               <<"server unavailable">>,
               <<>>}}
LoadErrors == RpcErrors \cup {ExcV("Exception", Diagnostic)}

\* the result types result_info lists, by name
QuantityNames ==
    <<"displacement", "stress", "elastic_strain", "velocity", "acceleration">>
\* the data pins the operator of each of them declares
QuantityPins ==
    <<{"streams", "data_sources"}, {"streams_container", "data_sources"},
      {"data_sources"}, {"streams", "data_sources"}, {"data_sources"}>>
AvailableResults(n) ==
    [i \in 1..n |-> ResultTypeV(QuantityNames[i], QuantityPins[i])]

\* what creating the operator of a result type may raise
CreateErrors ==
    {ExcV("DPFServerException", <<"operator not found">>),
     ExcV("Exception", <<"connection lost">>)}

\* mutation of _connect_operators: a server exception ends the walk
RECURSIVE _connect_operators_break(_, _)
_connect_operators_break(types, outcomes) ==
    IF types = <<>> THEN [registered |-> <<>>, raised |-> None]
    ELSE IF Head(outcomes) = None
    THEN LET rest == _connect_operators_break(Tail(types), Tail(outcomes))
         IN [registered |-> <<Head(types).name>> \o rest.registered,
             raised |-> rest.raised]
    ELSE IF Head(outcomes).class = "DPFServerException"
    THEN [registered |-> <<>>, raised |-> None]
    ELSE [registered |-> <<>>, raised |-> Head(outcomes)]

\* Results._connect_operators over the result types still to visit;
\* outcomes[i] is None or what Operator(...).__str__() raises for the i-th
RECURSIVE _connect_operators(_, _)
_connect_operators(types, outcomes) ==
    IF types = <<>> THEN [registered |-> <<>>, raised |-> None]
    ELSE IF Head(outcomes) = None
    THEN LET rest == _connect_operators(Tail(types), Tail(outcomes))
         IN [registered |-> <<Head(types).name>> \o rest.registered,
             raised |-> rest.raised]
    ELSE IF Head(outcomes).class = "DPFServerException"
    THEN _connect_operators(Tail(types), Tail(outcomes))
    ELSE [registered |-> <<>>, raised |-> Head(outcomes)]

\* the first exception in a sequence of outcomes, None when there is none
RECURSIVE FirstFailure(_)
FirstFailure(outcomes) ==
    IF outcomes = <<>> THEN None
    ELSE IF Head(outcomes) # None THEN Head(outcomes)
    ELSE FirstFailure(Tail(outcomes))

NoEvals ==
    [ResultInfoProvider |-> 0, TimeFreqSupportProvider |-> 0,
     MeshProvider |-> 0, result |-> 0]

\* Model(data_sources): Metadata.__init__, then Results.__init__ unless
\* loading the result info raised; rpc is None or what get_output raises
Model(var_inp, rpc, outcomes) ==
    /\ _data_sources = None
    /\ LET ds == DataSourcesOf(var_inp)
           sp == _cache_streams_provider(ds)
           ri == _load_result_info(sp, evals)
           r  == _connect_operators(AvailableResults(Len(outcomes)), outcomes)
       IN /\ _data_sources' = ds
          /\ _stream_provider' = sp
          /\ evals' = ri.evals
          /\ result_info' = IF rpc = None THEN ri.value ELSE None
          /\ _op_map_rev' = IF rpc = None THEN r.registered ELSE <<>>
          /\ raised' = IF rpc = None THEN r.raised
                       ELSE _load_result_info_except(rpc)
          /\ failure' =
                 IF rpc # None THEN FailureV("_load_result_info", rpc)
                 ELSE IF FirstFailure(outcomes) # None
                 THEN FailureV("_connect_operators", FirstFailure(outcomes))
                 ELSE None
          /\ History("Model", ds, ArgsV(outcomes), None)
    /\ UNCHANGED <<_meshed_region, _time_freq_support, resultVars, _operator,
                   request, called, constructed, evalCalls, outReads>>
    /\ UNCHANGED <<genVars, _result_info, held, factoryVars>>

\* Metadata._cache_result_info() on a Metadata that holds a result info
_cache_result_info(rpc) ==
    /\ result_info # None
    /\ LET ri == _load_result_info(_stream_provider, evals)
       IN /\ evals' = ri.evals
          /\ result_info' = IF rpc = None THEN ri.value ELSE result_info
    /\ Outcome("_cache_result_info", None, None, None,
               IF rpc = None THEN None
               ELSE FailureV("_load_result_info", rpc),
               IF rpc = None THEN None ELSE _load_result_info_except(rpc))
    /\ UNCHANGED <<_data_sources, _stream_provider, _meshed_region,
                   _time_freq_support, resultVars, _operator, request,
                   called, constructed, evalCalls, outReads>>

\* the state of the Result in use, as the caller would hold it aside
ThisResult ==
    [_result_info |-> _result_info, _time_scoping |-> _time_scoping,
     _mesh_scoping |-> _mesh_scoping, _location |-> _location,
     _specific_fc_type |-> _specific_fc_type, _operator |-> _operator,
     constructed |-> constructed, called |-> called]

\* where the try block of Result.__init__ may fail: creating the operator
\* (no _operator attribute is ever set) or connecting it to the model's data
ResultOutcomes ==
    {None} \cup {[stage |-> st, exc |-> e] :
                    st \in {"create", "connect"}, e \in CreateErrors}

\* Operator(name): a new operator object, nothing connected; `id` tells the
\* objects apart
NewOperator(name, pins, id) ==
    [kind |-> "Operator", name |-> name, pins |-> pins, conn |-> NoConn,
     id |-> id]

\* the number of Results the caller has obtained so far
ResultsObtained == Len(held) + IF _result_info = None THEN 0 ELSE 1

\* Result.__init__(model, result_type): the underlying operator it leaves
\* (None when the attribute was never set) and the exception it raises
ResultInit(result_type, stream_provider, data_sources, outcome, id) ==
    LET op == NewOperator(result_type.name, result_type.pins, id)
    IN [_operator |->
            IF outcome = None
            THEN __connect_op__(op, stream_provider, data_sources)
            ELSE IF outcome.stage = "connect" THEN op ELSE None,
        raised |->
            IF outcome = None \/ outcome.exc.class = "DPFServerException"
            THEN None ELSE outcome.exc]

\* mutation of __result__: an accessor hands out the Result it made before
__result__cached(result_type, outcome) ==
    /\ \E i \in DOMAIN _op_map_rev : _op_map_rev[i] = result_type.name
    /\ IF _result_info = result_type
       THEN /\ UNCHANGED <<resultVars, _result_info, _operator, constructed,
                           called>>
            /\ held' = Append(held, ThisResult)
       ELSE /\ _result_info' = result_type
            /\ _time_scoping' = None
            /\ _mesh_scoping' = None
            /\ _location' = None
            /\ _specific_fc_type' = None
            /\ _operator' = ResultInit(result_type, _stream_provider,
                                       _data_sources, None,
                                       ResultsObtained + 1)._operator
            /\ constructed' = _operator'
            /\ called' = FALSE
            /\ held' = IF _result_info = None THEN held
                       ELSE Append(held, ThisResult)
    /\ failure' = None
    /\ raised' = None
    /\ History("__result__", StrV(result_type.name), None, Self)
    /\ UNCHANGED <<metaVars, evals, request, evalCalls, outReads>>
    /\ UNCHANGED <<genVars, _op_map_rev, factoryVars>>

\* model.results.<name>: Results.__result__, a new Result that replaces the
\* one in use, which the caller keeps aside
__result__(result_type, outcome) ==
    /\ \E i \in DOMAIN _op_map_rev : _op_map_rev[i] = result_type.name
    /\ LET r == ResultInit(result_type, _stream_provider, _data_sources,
                           outcome, ResultsObtained + 1)
           f == IF outcome = None THEN None
                ELSE FailureV("Result.__init__", outcome.exc)
       IN IF r.raised = None
          THEN /\ _result_info' = result_type
               /\ _time_scoping' = None
               /\ _mesh_scoping' = None
               /\ _location' = None
               /\ _specific_fc_type' = None
               /\ _operator' = r._operator
               /\ constructed' = r._operator
               /\ called' = FALSE
               /\ held' = IF _result_info = None THEN held
                          ELSE Append(held, ThisResult)
               /\ failure' = f
               /\ raised' = None
               /\ History("__result__", StrV(result_type.name), None, Self)
          ELSE /\ UNCHANGED <<resultVars, _result_info, _operator,
                              constructed, called, held>>
               /\ failure' = f
               /\ raised' = r.raised
               /\ History("__result__", StrV(result_type.name), None, None)
    /\ UNCHANGED <<metaVars, evals, request, evalCalls, outReads>>
    /\ UNCHANGED <<genVars, _op_map_rev, factoryVars>>

\* reading Metadata.mesh_provider; run is None or what the try block around
\* MeshSelectionManagerProvider raises, create is None or what building the
\* MeshProvider after it raises
read_mesh_provider(run, create) ==
    /\ result_info # None
    /\ Outcome("mesh_provider", None, None,
               IF create = None THEN mesh_provider(_stream_provider)
               ELSE None,
               IF run # None THEN FailureV("mesh_provider", run)
               ELSE IF create # None THEN FailureV("mesh_provider", create)
               ELSE None,
               create)
    /\ UNCHANGED modelVars

\* what a remote call or a connect may raise
RemoteErrors ==
    {ExcV("DPFServerException", <<"evaluation failed">>),
     ExcV("_InactiveRpcError", <<"server unavailable">>)}

\* split_by_body / split_by_shape when something fails on the way:
\*   "create"         building the split operator or connecting its location,
\*                    mesh or label (outside any try)
\*   "mesh_selection" the try block inside Metadata.mesh_provider
\*   "mesh_scoping"   connecting the previous mesh scoping (inside the try)
split_failing(fc_type, prop, point, exc) ==
    /\ _result_info # None
    /\ point = "mesh_scoping" => Truthy(_mesh_scoping)
    /\ IF point = "create"
       THEN /\ _specific_fc_type' = StrV(fc_type)
            /\ UNCHANGED <<_time_scoping, _mesh_scoping, _location,
                           _meshed_region, _time_freq_support, evals>>
            /\ resultFrame
       ELSE _add_split_on_property_type(fc_type, prop, point # "mesh_scoping")
    /\ Outcome(IF fc_type = "body" THEN "split_by_body" ELSE "split_by_shape",
               None, None, IF point = "create" THEN None ELSE Self,
               FailureV("_add_split_on_property_type", exc),
               IF point = "create" THEN exc ELSE None)

\* Result.eval() when the evaluation fails remotely, or when the Result
\* never got an _operator
eval_failing(exc) ==
    /\ _result_info # None
    /\ IF _operator = None
       THEN /\ UNCHANGED <<_operator, called, evalCalls>>
            /\ Outcome("eval", None, None, None, None,
                       ExcV("AttributeError", <<"_operator">>))
       ELSE /\ _operator' = __call__(_operator, None, None)
            /\ called' = TRUE
            /\ evalCalls' = evalCalls + 1
            /\ Outcome("eval", None, None, None, FailureV("eval", exc), exc)
    /\ UNCHANGED <<metaVars, resultVars, evals, request, constructed,
                   outReads>>

\* reading Metadata.time_freq_support or Metadata.meshed_region when the
\* provider's get_output fails: nothing is cached
metadata_read_failing(property, exc) ==
    /\ result_info # None
    /\ IF property = "time_freq_support" THEN _time_freq_support = None
       ELSE _meshed_region = None
    /\ Outcome(property, None, None, None, FailureV(property, exc), exc)
    /\ UNCHANGED modelVars

\* no Model built yet
InitErr ==
    /\ _data_sources = None
    /\ _stream_provider = None
    /\ result_info = None
    /\ _meshed_region = None
    /\ _time_freq_support = None
    /\ evals = NoEvals
    /\ _time_scoping = None
    /\ _mesh_scoping = None
    /\ _location = None
    /\ _specific_fc_type = None
    /\ _operator = None
    /\ constructed = None
    /\ request = None
    /\ called = FALSE
    /\ evalCalls = 0
    /\ outReads = 0
    /\ last = [op |-> "None", a1 |-> None, a2 |-> None, ret |-> None]
    /\ prev = "None"
    /\ steps = 0
    /\ op_name = ""
    /\ inputs = None
    /\ connects = <<>>
    /\ sent = None
    /\ sentAt = 0
    /\ transport = 0
    /\ error = "None"
    /\ failure = None
    /\ raised = None
    /\ _op_map_rev = <<>>
    /\ _result_info = None
    /\ held = <<>>
    /\ field_request = None
    /\ fields = 0

\* the outcomes of creating the operators of n result types
CreateOutcomes(n) == [1..n -> {None} \cup CreateErrors]

NextErr ==
    \/ \E var_inp \in DataSourceArgs :
           \/ \E rpc \in LoadErrors : Model(var_inp, rpc, <<>>)
           \/ \E n \in 0..MaxTypes :
                  \E outcomes \in CreateOutcomes(n) :
                      Model(var_inp, None, outcomes)
    \/ \E rpc \in {None} \cup LoadErrors : _cache_result_info(rpc)
    \/ \E i \in 1..MaxTypes, outcome \in ResultOutcomes :
           __result__(AvailableResults(MaxTypes)[i], outcome)
    \/ \E run \in {None} \cup RemoteErrors : read_mesh_provider(run, None)
    \/ \E create \in RemoteErrors : read_mesh_provider(None, create)
    \/ \E point \in {"create", "mesh_selection", "mesh_scoping"},
          exc \in RemoteErrors :
           \/ split_failing("body", "mat", point, exc)
           \/ split_failing("shape", "elshape", point, exc)
    \/ \E exc \in RemoteErrors : eval_failing(exc)
    \/ \E exc \in RemoteErrors :
           \/ metadata_read_failing("time_freq_support", exc)
           \/ metadata_read_failing("meshed_region", exc)
    \/ \E mesh_scoping \in MeshArgs :
           _result_info # None /\ on_mesh_scoping(mesh_scoping)

SpecErr == InitErr /\ [][NextErr]_vars

(***************************************************************************)
(* Properties of failures, checked under SpecErr                           *)
(***************************************************************************)
\* the diagnostic occurs somewhere in a text of fragments
HasDiagnostic(d) ==
    \E i \in 1..Len(d) :
        \A j \in 1..Len(Diagnostic) :
            i + j - 1 <= Len(d) /\ d[i + j - 1] = Diagnostic[j]

\* C11: when get_output raises while the result info is loaded, the caller
\* gets RuntimeError "Unable to open result file" exactly when what was
\* raised is a remote error whose details contain the diagnostic, gets the
\* very exception in every other case, and result_info is not assigned.
C11_LoadErrorRenamed ==
    [][(failure' # None /\ failure'.where = "_load_result_info") =>
         /\ raised' =
                IF /\ failure'.exc.class = "_InactiveRpcError"
                   /\ HasDiagnostic(failure'.exc.details)
                THEN UnableToOpen ELSE failure'.exc
         /\ result_info' = result_info
         /\ last'.op = "Model" => result_info' = None]_vars

C11_Witness ==
    /\ last.op = "Model"
    /\ failure # None
    /\ failure.exc.class = "_InactiveRpcError"
    /\ Len(failure.exc.details) > Len(Diagnostic)
    /\ raised = UnableToOpen
    /\ result_info = None

\* C12: whenever a connect or a remote call fails inside an operation other
\* than the registration of the accessors (Results._connect_operators), the
\* operation raises.
C12_NothingSwallowedElsewhere ==
    (failure # None /\ failure.where # "_connect_operators")
        => raised # None

\* the indices, in order, of the result types whose operator was created
CreatedOk(outcomes, upto) ==
    LET Ok(i) == outcomes[i] = None
    IN SelectSeq([i \in 1..upto |-> i], Ok)

\* C13: when a Model is built and its result info loaded, the accessors
\* registered are, in result_info order, the result types whose operator
\* creation raised nothing, those that raised a server exception being
\* skipped, as long as no other exception was raised; the first exception of
\* another class ends the registration and is raised by the construction.
C13_RegistrationSkipsServerErrors ==
    (last.op = "Model" /\ result_info # None) =>
        LET outcomes == last.a2.args
            Other(i) == /\ outcomes[i] # None
                        /\ outcomes[i].class # "DPFServerException"
            Aborted == {i \in 1..Len(outcomes) : Other(i)}
            stop == IF Aborted = {} THEN Len(outcomes) + 1
                    ELSE CHOOSE i \in Aborted : \A j \in Aborted : i <= j
            ok == CreatedOk(outcomes, stop - 1)
        IN /\ _op_map_rev = [k \in 1..Len(ok) |-> QuantityNames[ok[k]]]
           /\ raised = IF Aborted = {} THEN None ELSE outcomes[stop]

C13_Witness ==
    /\ last.op = "Model"
    /\ result_info # None
    /\ Len(last.a2.args) = 2
    /\ last.a2.args[1] # None
    /\ last.a2.args[1].class = "DPFServerException"
    /\ last.a2.args[2] = None
    /\ _op_map_rev = <<"stress">>
    /\ raised = None

\* C29: a Model(data_sources) step that completes runs one evaluation of
\* the result info provider and none of the mesh provider or of the
\* time/frequency provider, and leaves _data_sources as the DataSources
\* given or made from the path given, _stream_provider a stream provider
\* connected to them, result_info the value loaded from them, and
\* _meshed_region and _time_freq_support unset.
C29_ModelConstruction ==
    [][(last'.op = "Model" /\ raised' = None) =>
         /\ evals' = [evals EXCEPT !.ResultInfoProvider = @ + 1]
         /\ _data_sources'.kind = "DataSources"
         /\ _data_sources' = last'.a1
         /\ _stream_provider' =
                OperatorV("stream_provider", [data_sources |-> _data_sources'])
         /\ result_info' = ResultInfoV(_data_sources'.file)
         /\ _meshed_region' = None
         /\ _time_freq_support' = None]_vars

C29_Witness ==
    /\ last.op = "Model"
    /\ raised = None
    /\ failure = None
    /\ _data_sources = DataSourcesV(MaxSets)
    /\ result_info = ResultInfoV(MaxSets)
    /\ evals.ResultInfoProvider = 1
    /\ evals.MeshProvider = 0
    /\ evals.TimeFreqSupportProvider = 0
    /\ Len(_op_map_rev) = MaxTypes

(***************************************************************************)
(* Several Results of one Model, and Model.operator (results.py, model.py) *)
(***************************************************************************)
\* the caller goes on with the i-th Result held aside instead of the one in
\* use
use(i) ==
    /\ _result_info # None
    /\ i \in DOMAIN held
    /\ _result_info' = held[i]._result_info
    /\ _time_scoping' = held[i]._time_scoping
    /\ _mesh_scoping' = held[i]._mesh_scoping
    /\ _location' = held[i]._location
    /\ _specific_fc_type' = held[i]._specific_fc_type
    /\ _operator' = held[i]._operator
    /\ constructed' = held[i].constructed
    /\ called' = held[i].called
    /\ held' = [held EXCEPT ![i] = ThisResult]
    /\ failure' = None
    /\ raised' = None
    /\ History("use", NumV(i), None, None)
    /\ UNCHANGED <<metaVars, evals, request, evalCalls, outReads>>
    /\ UNCHANGED <<genVars, _op_map_rev, factoryVars>>

\* operators the server knows by name, with the data pins they declare
ServerOperators ==
    {[name |-> "U", pins |-> {"streams", "data_sources"}],
     [name |-> "S", pins |-> {"streams_container", "data_sources"}],
     [name |-> "TimeFreqSupportProvider", pins |-> {"streams"}],
     [name |-> "accumulate", pins |-> {}]}

\* Model.operator(name)
operator(server_op) ==
    /\ result_info # None
    /\ Outcome("operator", StrV(server_op.name), None,
               __connect_op__(NewOperator(server_op.name, server_op.pins, 0),
                              _stream_provider, _data_sources),
               None, None)
    /\ UNCHANGED modelVars

\* Model(data_sources) built without a failure, no Result taken yet
InitRes ==
    \E var_inp \in DataSourceArgs :
        LET ds == DataSourcesOf(var_inp)
            sp == _cache_streams_provider(ds)
            ri == _load_result_info(sp, NoEvals)
            r  == _connect_operators(AvailableResults(MaxTypes),
                                     [i \in 1..MaxTypes |-> None])
        IN /\ _data_sources = ds
           /\ _stream_provider = sp
           /\ result_info = ri.value
           /\ evals = ri.evals
           /\ _op_map_rev = r.registered
           /\ _meshed_region = None
           /\ _time_freq_support = None
           /\ _time_scoping = None
           /\ _mesh_scoping = None
           /\ _location = None
           /\ _specific_fc_type = None
           /\ _operator = None
           /\ constructed = None
           /\ request = None
           /\ called = FALSE
           /\ evalCalls = 0
           /\ outReads = 0
           /\ last = [op |-> "Model", a1 |-> None, a2 |-> None, ret |-> None]
           /\ prev = "None"
           /\ steps = 0
           /\ op_name = ""
           /\ inputs = None
           /\ connects = <<>>
           /\ sent = None
           /\ sentAt = 0
           /\ transport = 0
           /\ error = "None"
           /\ failure = None
           /\ raised = None
           /\ _result_info = None
           /\ held = <<>>
           /\ field_request = None
           /\ fields = 0

NextRes ==
    \/ \E i \in 1..MaxTypes : __result__(AvailableResults(MaxTypes)[i], None)
    \/ \E i \in 1..MaxOps : use(i)
    \/ \E server_op \in ServerOperators : operator(server_op)
    \/ /\ _result_info # None
       /\ \/ on_all_time_freqs
          \/ on_first_time_freq
          \/ on_last_time_freq
          \/ \E time_scoping \in TimeArgs : on_time_scoping(time_scoping)
          \/ \E name \in NamedSelections : on_named_selection(name)
          \/ split_by_body
          \/ split_by_shape
          \/ \E mesh_scoping \in MeshArgs : on_mesh_scoping(mesh_scoping)
          \/ \E location \in Locations : on_location(location)
          \/ call(None, None)
          \/ read_output

SpecRes == InitRes /\ [][NextRes]_vars

AutoConnected(op) ==
    /\ "streams" \in op.pins
           => /\ op.conn.streams = OutputsOf(_stream_provider)
              /\ op.conn.data_sources = None
    /\ ("streams" \notin op.pins /\ "data_sources" \in op.pins)
           => /\ op.conn.data_sources = _data_sources
              /\ op.conn.streams = None
    /\ ("streams" \notin op.pins /\ "data_sources" \notin op.pins)
           => /\ op.conn.streams = None
              /\ op.conn.data_sources = None

MaxCalls == 2
\* entities reserved, or rows of an array
MaxEntities == 2
\* components, lines or columns asked of create_vector_field and
\* create_matrix_field
MaxComp == 2
\* columns of a rank-2 array
MaxCols == 6

\* Dimensionality(dim_vec, nature)
DimensionalityV(dim_vec, nature) ==
    [kind |-> "Dimensionality", dim |-> dim_vec, nature |-> nature]

\* base_pb2.Nature.Value(snature.upper())
NatureValue(snature) ==
    CASE snature = "scalar"    -> "SCALAR"
      [] snature = "vector"    -> "VECTOR"
      [] snature = "matrix"    -> "MATRIX"
      [] snature = "symmatrix" -> "SYMMATRIX"

\* mutation of _create_field: a tensor is reserved as 3*3 values
_create_field_tensor9(nature, nentities, location, ncomp_n, ncomp_m) ==
    LET elem_data_size ==
            IF nature = "vector" THEN 3
            ELSE IF nature = "symmatrix" THEN 9
            ELSE IF nature = "scalar" THEN 1
            ELSE IF nature = "matrix" THEN ncomp_n * ncomp_m
            ELSE ncomp_n
        dimensionality ==
            IF ncomp_n # 0 /\ ncomp_m # 0
            THEN DimensionalityV(<<ncomp_n, ncomp_m>>, nature)
            ELSE IF ncomp_n # 0 /\ ncomp_m = 0
            THEN DimensionalityV(<<ncomp_n>>, nature)
            ELSE None
    IN [nature |-> NatureValue(nature), location |-> location,
        scoping_size |-> nentities, dimensionality |-> dimensionality,
        data_size |-> nentities * elem_data_size]

\* mutation of _create_field: no descriptor unless both counts are given
_create_field_nodim(nature, nentities, location, ncomp_n, ncomp_m) ==
    LET elem_data_size ==
            IF nature = "vector" THEN 3
            ELSE IF nature = "symmatrix" THEN 6
            ELSE IF nature = "scalar" THEN 1
            ELSE IF nature = "matrix" THEN ncomp_n * ncomp_m
            ELSE ncomp_n
        dimensionality ==
            IF ncomp_n # 0 /\ ncomp_m # 0
            THEN DimensionalityV(<<ncomp_n, ncomp_m>>, nature)
            ELSE None
    IN [nature |-> NatureValue(nature), location |-> location,
        scoping_size |-> nentities, dimensionality |-> dimensionality,
        data_size |-> nentities * elem_data_size]

\* _create_field: the FieldRequest it fills in
_create_field(nature, nentities, location, ncomp_n, ncomp_m) ==
    LET elem_data_size ==
            IF nature = "vector" THEN 3
            ELSE IF nature = "symmatrix" THEN 6
            ELSE IF nature = "scalar" THEN 1
            ELSE IF nature = "matrix" THEN ncomp_n * ncomp_m
            ELSE ncomp_n
        dimensionality ==
            IF ncomp_n # 0 /\ ncomp_m # 0
            THEN DimensionalityV(<<ncomp_n, ncomp_m>>, nature)
            ELSE IF ncomp_n # 0 /\ ncomp_m = 0
            THEN DimensionalityV(<<ncomp_n>>, nature)
            ELSE None
    IN [nature |-> NatureValue(nature), location |-> location,
        scoping_size |-> nentities, dimensionality |-> dimensionality,
        data_size |-> nentities * elem_data_size]

\* a call of a factory function: no Model is involved, at most one
\* exception `exc` leaves it
FactoryLog(op, a1, ret, exc) ==
    /\ steps < MaxCalls
    /\ History(op, a1, None, ret)
    /\ raised' = exc
    /\ failure' = None
    /\ UNCHANGED <<modelVars, registryVars>>
    /\ UNCHANGED <<op_name, inputs, connects, sent, sentAt, error>>

\* stub.Create(request), then Field(field=message, server=server)
Create(op, args, req) ==
    /\ field_request' = req
    /\ transport' = transport + 1
    /\ fields' = fields + 1
    /\ FactoryLog(op, ArgsV(args), [kind |-> "Field", message |-> req], None)

create_matrix_field(num_entities, num_lines, num_col, location) ==
    Create("create_matrix_field",
           <<NumV(num_entities), NumV(num_lines), NumV(num_col),
             StrV(location)>>,
           _create_field("matrix", num_entities, location, num_col,
                         num_lines))

create_3d_vector_field(num_entities, location) ==
    Create("create_3d_vector_field", <<NumV(num_entities), StrV(location)>>,
           _create_field("vector", num_entities, location, 0, 0))

create_tensor_field(num_entities, location) ==
    Create("create_tensor_field", <<NumV(num_entities), StrV(location)>>,
           _create_field("symmatrix", num_entities, location, 0, 0))

create_scalar_field(num_entities, location) ==
    Create("create_scalar_field", <<NumV(num_entities), StrV(location)>>,
           _create_field("scalar", num_entities, location, 0, 0))

create_vector_field(num_entities, num_comp, location) ==
    Create("create_vector_field",
           <<NumV(num_entities), NumV(num_comp), StrV(location)>>,
           _create_field("vector", num_entities, location, num_comp, 0))

\* numpy arrays: element type, shape, and the elements in row-major order
RECURSIVE Prod(_)
Prod(shape) == IF shape = <<>> THEN 1 ELSE Head(shape) * Prod(Tail(shape))
NdArray(dtype, shape) ==
    [kind |-> "ndarray", dtype |-> dtype, shape |-> shape,
     flat |-> [i \in 1..Prod(shape) |-> i]]

\* np.issubdtype(dtype, np.number)
IsNumber(dtype) == dtype \in {"int64", "float64", "complex128"}
\* arr.ravel()
ravel(arr) == [arr EXCEPT !.shape = <<Len(arr.flat)>>]
\* np.arange(start, stop)
arange(start, stop) == [i \in 1..(stop - start) |-> start + i - 1]

NotNumeric == ExcV("TypeError", <<"Array must be a numeric type">>)
shp_err ==
    ExcV("ValueError",
         <<"Array must be either contain 1 dimension or ",
           "2 dimensions with three components.">>)

\* Field(nentities=n_entities, nature=nature), then its data and the ids
\* of its scoping assigned
Field(arr, nature) ==
    [field |-> [kind |-> "Field", nentities |-> arr.shape[1],
                nature |-> nature, data |-> arr,
                scoping |-> [ids |-> arange(1, arr.shape[1] + 1)]],
     raised |-> None]

\* mutation of field_from_array: the ids start at 0
field_from_array_ids0(arr) ==
    IF ~IsNumber(arr.dtype) THEN [field |-> None, raised |-> NotNumeric]
    ELSE IF Len(arr.shape) \in {1, 2} /\ (Len(arr.shape) = 2 => arr.shape[2] \in {1, 3, 6})
    THEN LET f == Field(IF Len(arr.shape) = 2 /\ arr.shape[2] = 1
                        THEN ravel(arr) ELSE arr,
                        IF Len(arr.shape) = 1 THEN "scalar"
                        ELSE IF arr.shape[2] = 1 THEN "scalar"
                        ELSE IF arr.shape[2] = 3 THEN "vector"
                        ELSE "symmatrix")
         IN [f EXCEPT !.field.scoping.ids = arange(0, arr.shape[1])]
    ELSE [field |-> None, raised |-> shp_err]

\* mutation of field_from_array: the shape is checked before the type
field_from_array_shape_first(arr) ==
    IF Len(arr.shape) = 1
    THEN IF IsNumber(arr.dtype) THEN Field(arr, "scalar")
         ELSE [field |-> None, raised |-> NotNumeric]
    ELSE IF Len(arr.shape) = 2 /\ arr.shape[2] \in {1, 3, 6}
    THEN IF ~IsNumber(arr.dtype) THEN [field |-> None, raised |-> NotNumeric]
         ELSE IF arr.shape[2] = 1 THEN Field(ravel(arr), "scalar")
         ELSE IF arr.shape[2] = 3 THEN Field(arr, "vector")
         ELSE Field(arr, "symmatrix")
    ELSE [field |-> None, raised |-> shp_err]

\* field_from_array(arr), arr being np.asarray of the argument: the field
\* returned or the exception raised
field_from_array(arr) ==
    IF ~IsNumber(arr.dtype) THEN [field |-> None, raised |-> NotNumeric]
    ELSE IF Len(arr.shape) = 1 THEN Field(arr, "scalar")
    ELSE IF Len(arr.shape) = 2
    THEN IF arr.shape[2] = 1 THEN Field(ravel(arr), "scalar")
         ELSE IF arr.shape[2] = 3 THEN Field(arr, "vector")
         ELSE IF arr.shape[2] = 6 THEN Field(arr, "symmatrix")
         ELSE [field |-> None, raised |-> shp_err]
    ELSE [field |-> None, raised |-> shp_err]

\* a call field_from_array(arr)
from_array(arr) ==
    LET r == field_from_array(arr)
    IN /\ fields' = IF r.raised = None THEN fields + 1 ELSE fields
       /\ UNCHANGED <<field_request, transport>>
       /\ FactoryLog("field_from_array", arr, r.field, r.raised)

(***************************************************************************)
(* mesh_scoping_factory.py                                                 *)
(***************************************************************************)
TupleV(s) == [kind |-> "tuple", ids |-> s]
InvalidTypeError(data_type, parameter_name) ==
    ExcV("InvalidTypeError", <<data_type, parameter_name>>)

\* mutation of nodal_scoping: any sequence of ids is taken
nodal_scoping_sequences(node_ids) ==
    LET ok == node_ids.kind \in {"list", "tuple"}
    IN /\ fields' = IF ok THEN fields + 1 ELSE fields
       /\ UNCHANGED <<field_request, transport>>
       /\ FactoryLog("nodal_scoping", node_ids,
                     IF ok THEN ScopingV(node_ids.ids, "Nodal") ELSE None,
                     IF ok THEN None
                     ELSE InvalidTypeError("list", "node_ids"))

nodal_scoping(node_ids) ==
    LET ok == node_ids.kind = "list"
    IN /\ fields' = IF ok THEN fields + 1 ELSE fields
       /\ UNCHANGED <<field_request, transport>>
       /\ FactoryLog("nodal_scoping", node_ids,
                     IF ok THEN ScopingV(node_ids.ids, "Nodal") ELSE None,
                     IF ok THEN None
                     ELSE InvalidTypeError("list", "node_ids"))

elemental_scoping(element_ids) ==
    LET ok == element_ids.kind = "list"
    IN /\ fields' = IF ok THEN fields + 1 ELSE fields
       /\ UNCHANGED <<field_request, transport>>
       /\ FactoryLog("elemental_scoping", element_ids,
                     IF ok THEN ScopingV(element_ids.ids, "Elemental")
                     ELSE None,
                     IF ok THEN None
                     ELSE InvalidTypeError("list", "element_ids"))

(***************************************************************************)
(* The factories' callers                                                  *)
(***************************************************************************)
FieldLocations == {"Nodal", "Elemental"}
Dtypes == {"float64", "int64", "str", "bool"}
Shapes ==
    {<<>>, <<1, 3, 1>>}
    \cup {<<n>> : n \in 0..MaxEntities}
    \cup {<<n, c>> : n \in 0..MaxEntities, c \in 0..MaxCols}
Arrays == {NdArray(dtype, shape) : dtype \in Dtypes, shape \in Shapes}
ScopingArgs ==
    {ListV(<<>>), ListV(<<5>>), ListV(<<7, 5>>), TupleV(<<7, 5>>), NumV(5),
     [kind |-> "set", ids |-> {5, 7}], NdArray("int64", <<2>>)}

\* nothing created yet
InitFac ==
    /\ InitOp
    /\ field_request = None

NextFac ==
    \/ \E num_entities \in 0..MaxEntities, location \in FieldLocations :
           \/ create_scalar_field(num_entities, location)
           \/ create_3d_vector_field(num_entities, location)
           \/ create_tensor_field(num_entities, location)
           \/ \E num_comp \in 1..MaxComp :
                  create_vector_field(num_entities, num_comp, location)
           \/ \E num_lines \in 1..MaxComp, num_col \in 1..MaxComp :
                  create_matrix_field(num_entities, num_lines, num_col,
                                      location)
    \/ \E arr \in Arrays : from_array(arr)
    \/ \E node_ids \in ScopingArgs : nodal_scoping(node_ids)
    \/ \E element_ids \in ScopingArgs : elemental_scoping(element_ids)

SpecFac == InitFac /\ [][NextFac]_vars

(***************************************************************************)
(* Properties of the factories, checked under SpecFac                      *)
(***************************************************************************)
CreateFunctions ==
    {"create_scalar_field", "create_vector_field", "create_tensor_field",
     "create_matrix_field", "create_3d_vector_field"}

\* C16: the request of create_scalar_field, create_3d_vector_field,
\* create_tensor_field and create_matrix_field reserves scoping_size =
\* num_entities and data_size = num_entities * elem_data_size, with
\* elem_data_size 1, 3, 6 and lines * columns respectively, and the matrix
\* request carries a descriptor of two dimensions.
C16_ReservedSizes ==
    last.op \in CreateFunctions \ {"create_vector_field"} =>
        LET args == last.a1.args
            num_entities == args[1].n
            elem_data_size ==
                CASE last.op = "create_scalar_field"    -> 1
                  [] last.op = "create_3d_vector_field" -> 3
                  [] last.op = "create_tensor_field"    -> 6
                  [] last.op = "create_matrix_field"    -> args[2].n * args[3].n
        IN /\ field_request.scoping_size = num_entities
           /\ field_request.data_size = num_entities * elem_data_size
           /\ last.op = "create_matrix_field"
                  => /\ field_request.dimensionality # None
                     /\ Len(field_request.dimensionality.dim) = 2
                     /\ field_request.dimensionality.dim[1]
                            * field_request.dimensionality.dim[2]
                        = elem_data_size

C16_Witness ==
    /\ last.op = "create_matrix_field"
    /\ last.a1.args[1].n = 2
    /\ last.a1.args[2].n = 1
    /\ last.a1.args[3].n = 2
    /\ field_request.scoping_size = 2
    /\ field_request.data_size = 4
    /\ field_request.dimensionality.dim = <<2, 1>>

\* the nature each create function asks for
NatureOf(op) ==
    CASE op = "create_scalar_field"    -> "SCALAR"
      [] op = "create_vector_field"    -> "VECTOR"
      [] op = "create_3d_vector_field" -> "VECTOR"
      [] op = "create_tensor_field"    -> "SYMMATRIX"
      [] op = "create_matrix_field"    -> "MATRIX"

\* a step of a create function makes one remote call whose request carries
\* the nature, the location and the entity count
OneCreateCall ==
    /\ transport' = transport + 1
    /\ field_request'.nature = NatureOf(last'.op)
    /\ field_request'.location = last'.a1.args[Len(last'.a1.args)].s
    /\ field_request'.scoping_size = last'.a1.args[1].n

\* C17: every create function makes exactly one remote create-field call,
\* whose request carries the nature, the location, the entity count and,
\* whenever the nature is vector or matrix, a dimensionality descriptor.
C17_OneCreateCallWithDescriptor ==
    [][last'.op \in CreateFunctions =>
         /\ OneCreateCall
         /\ field_request'.nature \in {"VECTOR", "MATRIX"}
                => field_request'.dimensionality # None]_vars

\* C17 as amended: the descriptor is sent by create_vector_field (the
\* component count) and create_matrix_field (columns, lines) only;
\* create_3d_vector_field, of nature vector, sends none.
C17_OneCreateCallDescriptorWhenAsked ==
    [][last'.op \in CreateFunctions =>
         /\ OneCreateCall
         /\ field_request'.dimensionality =
                IF last'.op = "create_vector_field"
                THEN DimensionalityV(<<last'.a1.args[2].n>>, "vector")
                ELSE IF last'.op = "create_matrix_field"
                THEN DimensionalityV(
                         <<last'.a1.args[3].n, last'.a1.args[2].n>>, "matrix")
                ELSE None]_vars

C17_Witness ==
    /\ prev = "create_vector_field"
    /\ last.op = "create_3d_vector_field"
    /\ transport = 2
    /\ field_request.nature = "VECTOR"
    /\ field_request.dimensionality = None

\* the arrays field_from_array takes: numeric, of rank 1 or of rank 2 with
\* 1, 3 or 6 columns
ValidArray(A) ==
    /\ IsNumber(A.dtype)
    /\ \/ Len(A.shape) = 1
       \/ Len(A.shape) = 2 /\ A.shape[2] \in {1, 3, 6}

C19_FieldFromArrayRejects ==
    [][(last'.op = "field_from_array" /\ ~ValidArray(last'.a1)) =>
         /\ raised' # None
         /\ raised'.class = IF IsNumber(last'.a1.dtype) THEN "ValueError"
                            ELSE "TypeError"
         /\ last'.ret = None
         /\ fields' = fields
         /\ transport' = transport]_vars

C19_Witness ==
    /\ last.op = "field_from_array"
    /\ ~IsNumber(last.a1.dtype)
    /\ Len(last.a1.shape) = 3
    /\ raised # None
    /\ raised.class = "TypeError"
    /\ fields = 1

\* C20: nodal_scoping and elemental_scoping raise InvalidTypeError for an
\* argument that is not a list and create no Scoping; for a list they
\* return a Scoping at location Nodal, respectively Elemental, whose ids
\* are the list.
C20_ScopingFactories ==
    [][last'.op \in {"nodal_scoping", "elemental_scoping"} =>
         IF last'.a1.kind = "list"
         THEN /\ raised' = None
              /\ last'.ret.kind = "Scoping"
              /\ last'.ret.ids = last'.a1.ids
              /\ last'.ret.location = IF last'.op = "nodal_scoping"
                                      THEN "Nodal" ELSE "Elemental"
              /\ fields' = fields + 1
         ELSE /\ raised' # None
              /\ raised'.class = "InvalidTypeError"
              /\ last'.ret = None
              /\ fields' = fields]_vars

C20_Witness ==
    /\ prev = "elemental_scoping"
    /\ fields = 1
    /\ last.op = "nodal_scoping"
    /\ last.a1 = TupleV(<<7, 5>>)
    /\ raised # None
    /\ raised.class = "InvalidTypeError"

\* C24: the request of create_vector_field(num_entities, num_comp) carries
\* the descriptor [num_comp] and reserves scoping_size = num_entities and
\* data_size = num_entities * num_comp.
C24_VectorFieldSizes ==
    last.op = "create_vector_field" =>
        LET num_entities == last.a1.args[1].n
            num_comp == last.a1.args[2].n
        IN /\ field_request.dimensionality =
                  DimensionalityV(<<num_comp>>, "vector")
           /\ field_request.scoping_size = num_entities
           /\ field_request.data_size = num_entities * num_comp

\* C25: the descriptor in the request of create_matrix_field(num_entities,
\* num_lines, num_col) is [num_lines, num_col]: the line count first, as
\* _create_field's number of lines, then the column count.
C25_MatrixLinesThenColumns ==
    last.op = "create_matrix_field" =>
        LET num_lines == last.a1.args[2].n
            num_col == last.a1.args[3].n
        IN field_request.dimensionality =
               DimensionalityV(<<num_lines, num_col>>, "matrix")

(***************************************************************************)
(* The Results registry read back: len, iteration, indexing (results.py)   *)
(***************************************************************************)
\* what reading an attribute that was never assigned raises
AttributeError(name) == ExcV("AttributeError", <<name>>)

\* Results._connect_operators returns before `self._op_map_rev = {}` when
\* the result info it was built from is None: the attribute then does not
\* exist (the variable _op_map_rev is left empty and must not be read)
HasOpMapRev == result_info # None

\* the result type an accessor was registered for: the property stored
\* under `key` in the class dictionary wraps __result__ with that type
TypeNamed(key) ==
    CHOOSE t \in {AvailableResults(Len(QuantityNames))[i] :
                     i \in 1..Len(QuantityNames)} : t.name = key

\* the Result that Results.__result__(result_type) returns
ResultV(result_type, id) ==
    [kind |-> "Result", _result_info |-> result_type,
     _time_scoping |-> None, _mesh_scoping |-> None, _location |-> None,
     _specific_fc_type |-> None,
     _operator |-> ResultInit(result_type, _stream_provider, _data_sources,
                              None, id)._operator]

\* the objects an iteration yielded, in order
YieldedV(items) == [kind |-> "yielded", items |-> items]

\* a read of the registry: it changes nothing of the model
RegistryLog(op, a1, ret, exc) ==
    /\ Outcome(op, a1, None, ret, None, exc)
    /\ UNCHANGED modelVars

\* len(results)
__len__ ==
    IF HasOpMapRev
    THEN RegistryLog("__len__", None, NumV(Len(_op_map_rev)), None)
    ELSE RegistryLog("__len__", None, None, AttributeError("_op_map_rev"))

\* list(results): Results.__iter__ run to its end
__iter__ ==
    IF HasOpMapRev
    THEN RegistryLog("__iter__", None,
                     YieldedV([k \in 1..Len(_op_map_rev) |->
                                  ResultV(TypeNamed(_op_map_rev[k]), k)]),
                     None)
    ELSE RegistryLog("__iter__", None, None, AttributeError("_op_map_rev"))

\* results[val]: the keys are walked with a counter; nothing is returned
\* when the counter never meets val
__getitem__(val) ==
    IF HasOpMapRev
    THEN RegistryLog("__getitem__", NumV(val),
                     IF val \in 0..(Len(_op_map_rev) - 1)
                     THEN ResultV(TypeNamed(_op_map_rev[val + 1]), 1)
                     ELSE None,
                     None)
    ELSE RegistryLog("__getitem__", NumV(val), None,
                     AttributeError("_op_map_rev"))

\* what the read of the ResultInfoProvider gave the Metadata: nothing (the
\* case _connect_operators tests for), or a result info listing n types
\* whose operators the server knows or not
Listings ==
    {None} \cup
    {ArgsV(outcomes) :
        outcomes \in UNION {[1..n -> {None, ExcV("DPFServerException",
                                                 <<"operator not found">>)}] :
                               n \in 0..MaxTypes}}

\* Model(data_sources) built, its Results registry filled from the listing
InitReg ==
    \E var_inp \in DataSourceArgs, listing \in Listings :
        LET ds == DataSourcesOf(var_inp)
            sp == _cache_streams_provider(ds)
            ri == _load_result_info(sp, NoEvals)
        IN /\ _data_sources = ds
           /\ _stream_provider = sp
           /\ result_info = IF listing = None THEN None ELSE ri.value
           /\ evals = ri.evals
           /\ _op_map_rev =
                  IF listing = None THEN <<>>
                  ELSE _connect_operators(AvailableResults(Len(listing.args)),
                                          listing.args).registered
           /\ _meshed_region = None
           /\ _time_freq_support = None
           /\ _time_scoping = None
           /\ _mesh_scoping = None
           /\ _location = None
           /\ _specific_fc_type = None
           /\ _operator = None
           /\ constructed = None
           /\ request = None
           /\ called = FALSE
           /\ evalCalls = 0
           /\ outReads = 0
           /\ last = [op |-> "Model", a1 |-> ds, a2 |-> listing, ret |-> None]
           /\ prev = "None"
           /\ steps = 0
           /\ op_name = ""
           /\ inputs = None
           /\ connects = <<>>
           /\ sent = None
           /\ sentAt = 0
           /\ transport = 0
           /\ error = "None"
           /\ failure = None
           /\ raised = None
           /\ _result_info = None
           /\ held = <<>>
           /\ field_request = None
           /\ fields = 0

NextReg ==
    \/ __len__
    \/ __iter__
    \/ \E val \in -1..MaxTypes : __getitem__(val)

SpecReg == InitReg /\ [][NextReg]_vars

(***************************************************************************)
(* Properties of the registry, checked under SpecReg                       *)
(***************************************************************************)
\* C30: for every Results registry, also one built from a result info that
\* lists nothing or from no result info at all, len(results) returns the
\* number of registered accessors, iterating yields that many Results, the
\* k-th bound to the k-th registered quantity, and results[i] returns a
\* Result bound to the (i+1)-th registered quantity for 0 <= i < len; none
\* of the three raises.
C30_RegistryReadBack ==
    /\ last.op \in {"__len__", "__iter__"} => raised = None
    /\ last.op = "__len__" => last.ret = NumV(Len(_op_map_rev))
    /\ last.op = "__iter__" =>
           /\ Len(last.ret.items) = Len(_op_map_rev)
           /\ \A k \in 1..Len(_op_map_rev) :
                  /\ last.ret.items[k].kind = "Result"
                  /\ last.ret.items[k]._result_info.name = _op_map_rev[k]
    /\ (last.op = "__getitem__" /\ last.a1.n \in 0..(Len(_op_map_rev) - 1)) =>
           /\ raised = None
           /\ last.ret.kind = "Result"
           /\ last.ret._result_info.name = _op_map_rev[last.a1.n + 1]

====
